---- MODULE Spec2Model ----
(***************************************************************************)
(* Structural signal engine of radon_research (src/pvtlevels_signals.py):  *)
(* pivot detection over an oscillator, change-point flags from the         *)
(* external PELT solver, fusion into buy/sell/hold labels, and the left    *)
(* merge of the active rows back onto the original table.                  *)
(*                                                                         *)
(* Positions are 0-based as in the Python source; a sequence s stores      *)
(* position p at s[p + 1].                                                 *)
(***************************************************************************)
EXTENDS Integers, Sequences, FiniteSets

VARIABLES
    pc,          \* "ready" | "pivot_done" | "signals_done" | "merged" | "raised"
    index,       \* index labels of the input table (data.index / price_data.index)
    Close,       \* the 'Close' column: price series and oscillator
    LBL,         \* left look-back of the current call
    LBR,         \* right look-ahead of the current call
    cp_window,   \* proximity window of the current call
    highlow,     \* kind passed to pivot()
    pivots,      \* list returned by pivot()
    solver,      \* outcome of the external solver: "idle" | "ok" | "failed"
    cp_indices,  \* list of indices returned by detect_change_points
    cp_written,  \* indices the loop of lines 100-102 passed to the flag write
    signals,     \* frame built by generate_signals
    merged,      \* rows of the table returned by get_pvt_signals
    err          \* "none" or the exception that left the call

vars == <<pc, index, Close, LBL, LBR, cp_window, highlow, pivots, solver,
          cp_indices, cp_written, signals, merged, err>>

-----------------------------------------------------------------------------
(* Bounds of the explored inputs *)

MaxLen == 3      \* longest series of a direct pivot / generate_signals call
MaxVal == 2      \* prices of those series are 1..MaxVal
MaxLB == 2       \* LBL, LBR of a direct call range over 0..MaxLB
MaxWin == 2      \* cp_window of a direct call ranges over 0..MaxWin
MaxCps == 2      \* the solver returns at most MaxCps indices (direct calls)
GpsExtra == 1    \* get_pvt_signals tables: up to GpsExtra rows more than GpsMinLen
GpsBreaks == 1   \* get_pvt_signals: the solver returns at most GpsBreaks indices and the sentinel

(* Program constants *)

DefLBL == 3      \* generate_signals defaults
DefLBR == 3
DefWindow == 5
GpsLBL == 5      \* arguments get_pvt_signals passes to generate_signals
GpsLBR == 5
GpsWindow == 8

NaN == -1        \* np.nan: the absent value of a numeric column
Null == "null"   \* missing value of an object column after the merge

Kinds == {"high", "low", "other"}

Min(a, b) == IF a < b THEN a ELSE b
Max(a, b) == IF a > b THEN a ELSE b

isnan(x) == x = NaN

\* a list held as a value (a Python list / column), not as a rule to recompute
AsList(f) == f \o <<>>

-----------------------------------------------------------------------------
(* Pivot detection *)

\* s.iloc[a:b] / s[a:b]: Python slice with clipping and negative wrap-around
Iloc(s, a, b) ==
    LET n == Len(s)
        lo == IF a < 0 THEN Max(a + n, 0) ELSE Min(a, n)
        hi == IF b < 0 THEN Max(b + n, 0) ELSE Min(b, n)
    IN  AsList([k \in 1..Max(hi - lo, 0) |-> s[lo + k]])

checkhl_strictback(data_back, data_forward, hl) ==
    LET ref == data_back[Len(data_back)]
        back == Iloc(data_back, 0, -1)
    IN  IF hl = "high"
        THEN (\A k \in 1..Len(back) : ref > back[k])
             /\ (\A k \in 1..Len(data_forward) : ref > data_forward[k])
        ELSE IF hl = "low"
        THEN (\A k \in 1..Len(back) : ref < back[k])
             /\ (\A k \in 1..Len(data_forward) : ref < data_forward[k])
        ELSE FALSE

checkhl_nonstrict(data_back, data_forward, hl) ==
    LET ref == data_back[Len(data_back)]
        back == Iloc(data_back, 0, -1)
    IN  IF hl = "high"
        THEN (\A k \in 1..Len(back) : ref >= back[k])
             /\ (\A k \in 1..Len(data_forward) : ref >= data_forward[k])
        ELSE IF hl = "low"
        THEN (\A k \in 1..Len(back) : ref <= back[k])
             /\ (\A k \in 1..Len(data_forward) : ref <= data_forward[k])
        ELSE FALSE

checkhl(data_back, data_forward, hl) ==
    LET ref == data_back[Len(data_back)]
        back == Iloc(data_back, 0, -1)
    IN  IF hl = "high"
        THEN (\A k \in 1..Len(back) : ref >= back[k])
             /\ (\A k \in 1..Len(data_forward) : ref > data_forward[k])
        ELSE IF hl = "low"
        THEN (\A k \in 1..Len(back) : ref <= back[k])
             /\ (\A k \in 1..Len(data_forward) : ref < data_forward[k])
        ELSE FALSE

PivotRange_noright(n, lbl, lbr) == lbl .. (n - 1)

\* range(LBL, len(osc) - LBR)
PivotRange(n, lbl, lbr) == lbl .. (n - lbr - 1)

pivot(osc, lbl, lbr, hl) ==
    AsList([k \in 1..Len(osc) |->
        IF (k - 1) \in PivotRange(Len(osc), lbl, lbr)
           /\ checkhl(Iloc(osc, k - 1 - lbl, k), Iloc(osc, k, k + lbr), hl)
        THEN osc[k]
        ELSE NaN])

-----------------------------------------------------------------------------
(* Change points *)

RECURSIVE SubsetsUpTo(_, _)
SubsetsUpTo(S, m) ==
    IF m = 0 THEN {{}}
    ELSE LET smaller == SubsetsUpTo(S, m - 1)
         IN  smaller \cup {c \cup {x} : c \in smaller, x \in S}

\* the elements of a list
Range(s) == {s[k] : k \in 1..Len(s)}

\* the ascending list of the elements of a set of integers
RECURSIVE SortedList(_)
SortedList(c) ==
    IF c = {} THEN <<>>
    ELSE LET least == CHOOSE x \in c : \A y \in c : x <= y
         IN  <<least>> \o SortedList(c \ {least})

\* what rpt.Pelt(...).fit(...).predict(...) may return for n samples: an
\* ascending list of at most maxCps indices, among them the sentinel n and the
\* out-of-range n + 1
SolverOutputs(n, maxCps) == {SortedList(c) : c \in SubsetsUpTo(0..(n + 1), maxCps)}

\* detect_change_points hands the solver's list to the caller unchanged
detect_change_points(predicted) == predicted

\* the row signals.iloc[cp, ...] = 1 writes: a negative cp counts from the end
WritePosition(cp, n) == IF cp < 0 THEN cp + n ELSE cp

\* the iteration on cps[k] passes `if cp < len(signals)` and its write
\* signals.iloc[cp, ...] raises IndexError: cp is below -len(signals)
WriteRaises(cps, k, n) == cps[k] < n /\ cps[k] < 0 - n

\* some iteration of the loop raises
CpOutOfBounds(cps, n) == \E k \in 1..Len(cps) : WriteRaises(cps, k, n)

\* the last iteration the loop over cps runs: the first one whose write
\* raises, or the end of the list
LoopReach(cps, n) ==
    IF CpOutOfBounds(cps, n)
    THEN CHOOSE k \in 1..Len(cps) :
            WriteRaises(cps, k, n) /\ \A j \in 1..(k - 1) : ~WriteRaises(cps, j, n)
    ELSE Len(cps)

CpWrites_inclusive(cps, n) == {cps[k] : k \in {j \in 1..LoopReach(cps, n) : cps[j] <= n}}

\* indices the loop passes to the write: those of the iterations it runs that
\* pass `if cp < len(signals)`; every negative index passes
CpWrites(cps, n) == {cps[k] : k \in {j \in 1..LoopReach(cps, n) : cps[j] < n}}

\* the change_point column: 0 everywhere, 1 on the rows the loop wrote
ChangePointFlags(cps, n) ==
    AsList([k \in 1..n |->
        IF \E cp \in CpWrites(cps, n) : WritePosition(cp, n) = k - 1 THEN 1 ELSE 0])

RECURSIVE SumSeq(_)
SumSeq(s) == IF Len(s) = 0 THEN 0 ELSE s[1] + SumSeq(Tail(s))

WindowStart_unclamped(i, w) == i - w

WindowStart(i, w) == Max(0, i - w)

WindowEnd(n, i, w) == Min(n - 1, i + w)

\* signals['change_point'].iloc[window_start:window_end+1].sum() > 0
NearChangePoint(flags, i, w) ==
    SumSeq(Iloc(flags, WindowStart(i, w), WindowEnd(Len(flags), i, w) + 1)) > 0

-----------------------------------------------------------------------------
(* Signal fusion *)

get_signal_buyfirst(row) ==
    IF row.buy_signal THEN "buy"
    ELSE IF row.sell_signal THEN "sell"
    ELSE "hold"

get_signal(row) ==
    IF row.buy_signal /\ ~row.sell_signal THEN "buy"
    ELSE IF row.sell_signal /\ ~row.buy_signal THEN "sell"
    ELSE "hold"

\* the frame generate_signals returns when the solver returned cps
generate_signals(idx, price_data, oscillator, lbl, lbr, w, cps) ==
    LET n == Len(price_data)
        pvtHigh == pivot(oscillator, lbl, lbr, "high")
        pvtLow == pivot(oscillator, lbl, lbr, "low")
        flags == ChangePointFlags(cps, n)
        near == AsList([k \in 1..n |-> NearChangePoint(flags, k - 1, w)])
        \* positions at which the loop of lines 110-117 sets a flag
        buyAt == AsList([k \in 1..n |-> near[k] /\ ~isnan(pvtLow[k])])
        sellAt == AsList([k \in 1..n |-> near[k] /\ ~isnan(pvtHigh[k])])
        \* signals.at[signals.index[i], col] = True writes every row labelled index[i]
        buy == AsList([k \in 1..n |-> \E i \in 1..n : idx[i] = idx[k] /\ buyAt[i]])
        sell == AsList([k \in 1..n |-> \E i \in 1..n : idx[i] = idx[k] /\ sellAt[i]])
    IN  AsList([k \in 1..n |->
            [idx |-> idx[k],
             price |-> price_data[k],
             osc |-> oscillator[k],
             pvtHigh |-> pvtHigh[k],
             pvtLow |-> pvtLow[k],
             change_point |-> flags[k],
             buy_signal |-> buy[k],
             sell_signal |-> sell[k],
             signal |-> get_signal([buy_signal |-> buy[k], sell_signal |-> sell[k]])]])

-----------------------------------------------------------------------------
(* Alignment / merge *)

\* the original table: its index and its 'Close' column
DataTable(idx, close) ==
    AsList([k \in 1..Len(idx) |-> [idx |-> idx[k], Close |-> close[k]]])

ActiveSignals_all(frame) == frame

\* signals[(signals['buy_signal']) | (signals['sell_signal'])]
ActiveSignals(frame) == SelectSeq(frame, LAMBDA r : r.buy_signal \/ r.sell_signal)

\* a left row joined with a matching right row
JoinRow(l, r) ==
    [idx |-> l.idx, Close |-> l.Close,
     price |-> r.price, osc |-> r.osc, pvtHigh |-> r.pvtHigh, pvtLow |-> r.pvtLow,
     change_point |-> r.change_point, buy_signal |-> r.buy_signal,
     sell_signal |-> r.sell_signal, signal |-> r.signal]

\* a left row without a match: the right columns are missing
JoinMissing(l) ==
    [idx |-> l.idx, Close |-> l.Close,
     price |-> NaN, osc |-> NaN, pvtHigh |-> NaN, pvtLow |-> NaN,
     change_point |-> NaN, buy_signal |-> Null,
     sell_signal |-> Null, signal |-> Null]

Matches(l, right) == SelectSeq(right, LAMBDA r : r.idx = l.idx)

RECURSIVE MergeInner(_, _)
MergeInner(left, right) ==
    IF Len(left) = 0 THEN <<>>
    ELSE LET l == Head(left)
             m == Matches(l, right)
         IN  AsList([k \in 1..Len(m) |-> JoinRow(l, m[k])]) \o MergeInner(Tail(left), right)

\* data.merge(active_signals, left_index=True, right_index=True, how='left')
RECURSIVE MergeLeft(_, _)
MergeLeft(left, right) ==
    IF Len(left) = 0 THEN <<>>
    ELSE LET l == Head(left)
             m == Matches(l, right)
         IN  (IF Len(m) = 0 THEN <<JoinMissing(l)>>
              ELSE AsList([k \in 1..Len(m) |-> JoinRow(l, m[k])]))
             \o MergeLeft(Tail(left), right)

\* merged_data.drop(columns=cols, inplace=True, errors='ignore')
DropColumns(table, cols) ==
    AsList([k \in 1..Len(table) |-> [c \in (DOMAIN table[k]) \ cols |-> table[k][c]]])

\* merged_data.rename(columns={old: new}) when old is a column
RenameColumn(table, old, new) ==
    AsList([k \in 1..Len(table) |->
        IF old \in DOMAIN table[k]
        THEN [c \in ((DOMAIN table[k]) \ {old}) \cup {new} |->
                 IF c = new THEN table[k][old] ELSE table[k][c]]
        ELSE table[k]])

\* the table get_pvt_signals returns, given the frame generate_signals returned
get_pvt_signals(idx, close, frame) ==
    RenameColumn(
        DropColumns(MergeLeft(DataTable(idx, close), ActiveSignals(frame)),
                    {"buy_signal", "sell_signal"}),
        "signal", "cpd_pvt_signals")

Columns(table) == UNION {(DOMAIN table[k]) \ {"idx"} : k \in 1..Len(table)}

-----------------------------------------------------------------------------
(* Inputs *)

SeqsOf(vals, n) == [1..n -> vals]

\* series of a direct call
Series == UNION {SeqsOf(1..MaxVal, n) : n \in 1..MaxLen}

\* shortest series on which get_pvt_signals can mark a pivot
GpsMinLen == GpsLBL + GpsLBR + 1

\* a price that sits at level base, except on positions a..b-1 where it sits
\* at level inside: one regime between two change points
Excursion(n, a, b, base, inside) ==
    [k \in 1..n |-> IF a <= k - 1 /\ k - 1 < b THEN inside ELSE base]

Excursions(n) ==
    {Excursion(n, a, b, 1, MaxVal) : a \in 0..n, b \in 0..n}
        \cup {Excursion(n, a, b, MaxVal, 1) : a \in 0..n, b \in 0..n}

\* a price at level MaxVal that dips to 1 at position a and spikes to
\* MaxVal + 1 at position a + 1, or spikes first and dips next
Zigzag(n, a, first, second) ==
    [k \in 1..n |-> IF k - 1 = a THEN first ELSE IF k - 1 = a + 1 THEN second ELSE MaxVal]

Zigzags(n) ==
    {Zigzag(n, a, 1, MaxVal + 1) : a \in 0..(n - 2)}
        \cup {Zigzag(n, a, MaxVal + 1, 1) : a \in 0..(n - 2)}

\* tables handed to get_pvt_signals: the short series, and excursions and
\* zigzags long enough for a pivot
GpsSeries ==
    Series \cup UNION {Excursions(n) \cup Zigzags(n) : n \in GpsMinLen..(GpsMinLen + GpsExtra)}

\* what the solver may return inside get_pvt_signals: nothing, or up to
\* GpsBreaks indices followed by the trailing sentinel n
GpsSolverOutputs(n) ==
    {<<>>} \cup {SortedList(c \cup {n}) : c \in SubsetsUpTo(0..(n + 1), GpsBreaks)}

\* pd.RangeIndex(n), the index data.reset_index() leaves (src/Signals.py line 52)
RangeIndex(n) == [k \in 1..n |-> k - 1]

\* an index in which the label of position d - 1 occurs again at position d
DupIndex(n, d) == [k \in 1..n |-> IF k - 1 < d THEN k - 1 ELSE k - 2]

\* a unique index in descending order
ReverseIndex(n) == [k \in 1..n |-> n - k]

HasDuplicates(s) == \E a, b \in 1..Len(s) : a # b /\ s[a] = s[b]

InitCommon ==
    /\ pc = "ready"
    /\ highlow = "other"
    /\ pivots = <<>>
    /\ solver = "idle"
    /\ cp_indices = <<>>
    /\ cp_written = {}
    /\ signals = <<>>
    /\ merged = <<>>
    /\ err = "none"

\* a direct call of pivot or generate_signals
Init ==
    /\ InitCommon
    /\ Close \in Series
    /\ index = RangeIndex(Len(Close))
    /\ LBL \in 0..MaxLB
    /\ LBR \in 0..MaxLB
    /\ cp_window \in 0..MaxWin

\* a call of get_pvt_signals on a table with unique index values
InitGps ==
    /\ InitCommon
    /\ Close \in GpsSeries
    /\ index \in {RangeIndex(Len(Close)), ReverseIndex(Len(Close))}
    /\ LBL = DefLBL
    /\ LBR = DefLBR
    /\ cp_window = DefWindow

\* a call of get_pvt_signals on a table whose index holds a label twice
InitDup ==
    /\ InitCommon
    /\ Close \in GpsSeries
    /\ index \in {DupIndex(Len(Close), d) : d \in 1..(Len(Close) - 1)}
    /\ LBL = DefLBL
    /\ LBR = DefLBR
    /\ cp_window = DefWindow

-----------------------------------------------------------------------------
(* Operations *)

\* pivot(osc, LBL, LBR, highlow)
CallPivot ==
    /\ pc = "ready"
    /\ \E hl \in Kinds :
        /\ highlow' = hl
        /\ pivots' = pivot(Close, LBL, LBR, hl)
    /\ pc' = "pivot_done"
    /\ UNCHANGED <<index, Close, LBL, LBR, cp_window, solver, cp_indices,
                   cp_written, signals, merged, err>>

\* generate_signals(price, oscillator, LBL, LBR, ..., cp_window), the solver
\* returning a list; no index of the solver is below -len, so every flag write
\* lands on a row
CallGenerateSignals ==
    /\ pc = "ready"
    /\ \E predicted \in SolverOutputs(Len(Close), MaxCps) :
        LET cps == detect_change_points(predicted)
        IN  /\ ~CpOutOfBounds(cps, Len(Close))
            /\ cp_indices' = cps
            /\ cp_written' = CpWrites(cps, Len(Close))
            /\ signals' = generate_signals(index, Close, Close, LBL, LBR, cp_window, cps)
    /\ solver' = "ok"
    /\ pc' = "signals_done"
    /\ UNCHANGED <<index, Close, LBL, LBR, cp_window, highlow, pivots, merged, err>>

\* generate_signals when the solver raises: nothing catches the exception
GenerateSignalsRaises ==
    /\ pc = "ready"
    /\ solver' = "failed"
    /\ err' = "SolverError"
    /\ pc' = "raised"
    /\ UNCHANGED <<index, Close, LBL, LBR, cp_window, highlow, pivots, cp_indices,
                   cp_written, signals, merged>>

\* get_pvt_signals(data), solver returns
CallGetPvtSignals ==
    /\ pc = "ready"
    /\ LBL' = GpsLBL
    /\ LBR' = GpsLBR
    /\ cp_window' = GpsWindow
    /\ \E predicted \in GpsSolverOutputs(Len(Close)) :
        LET cps == detect_change_points(predicted)
            frame == generate_signals(index, Close, Close, GpsLBL, GpsLBR, GpsWindow, cps)
        IN  /\ cp_indices' = cps
            /\ cp_written' = CpWrites(cps, Len(Close))
            /\ signals' = frame
            /\ merged' = get_pvt_signals(index, Close, frame)
    /\ solver' = "ok"
    /\ pc' = "merged"
    /\ UNCHANGED <<index, Close, highlow, pivots, err>>

\* get_pvt_signals when the solver raises inside generate_signals
GetPvtSignalsRaises ==
    /\ pc = "ready"
    /\ LBL' = GpsLBL
    /\ LBR' = GpsLBR
    /\ cp_window' = GpsWindow
    /\ solver' = "failed"
    /\ err' = "SolverError"
    /\ pc' = "raised"
    /\ UNCHANGED <<index, Close, highlow, pivots, cp_indices, cp_written, signals, merged>>

Next == CallPivot \/ CallGenerateSignals \/ GenerateSignalsRaises

NextGps == CallGetPvtSignals \/ GetPvtSignalsRaises

Spec == Init /\ [][Next]_vars

SpecGps == InitGps /\ [][NextGps]_vars

SpecDup == InitDup /\ [][NextGps]_vars

-----------------------------------------------------------------------------
(* Properties *)

N == Len(Close)
S(i) == Close[i + 1]
Positions == 0..(N - 1)
Marked(col, i) == ~isnan(col[i + 1])

IsPivotHigh(i) ==
    /\ \A j \in (i - LBL)..(i - 1) : S(i) >= S(j)
    /\ \A j \in (i + 1)..(i + LBR) : S(i) > S(j)

IsPivotLow(i) ==
    /\ \A j \in (i - LBL)..(i - 1) : S(i) <= S(j)
    /\ \A j \in (i + 1)..(i + LBR) : S(i) < S(j)

\* C1: for every i with LBL <= i < len - LBR, pivot(..., 'high') stores S[i] at i
\* iff S[i] >= every element of the LBL elements before it and S[i] > every
\* element of the LBR elements after it, and stores the absent value otherwise;
\* pivot(..., 'low') likewise with <= and <.
C1_PivotMarksIffExtremum ==
    (pc = "pivot_done" /\ highlow \in {"high", "low"}) =>
        \A i \in Positions :
            (LBL <= i /\ i < N - LBR) =>
                LET extremum == IF highlow = "high" THEN IsPivotHigh(i) ELSE IsPivotLow(i)
                IN  /\ Marked(pivots, i) <=> extremum
                    /\ Marked(pivots, i) => pivots[i + 1] = S(i)

\* a pivot high that ties with its left neighbour and exceeds its right one
C1_Witness ==
    /\ pc = "pivot_done" /\ highlow = "high" /\ LBL >= 1 /\ LBR >= 1
    /\ \E i \in Positions :
        /\ LBL <= i /\ i < N - LBR
        /\ Marked(pivots, i) /\ S(i - 1) = S(i) /\ S(i) > S(i + 1)

\* C2: pivot returns len(S) entries and marks no index i with i < LBL or
\* i >= len(S) - LBR; a series shorter than LBL + LBR + 1 yields all-absent.
C2_PivotLengthAndMargins ==
    pc = "pivot_done" =>
        /\ Len(pivots) = N
        /\ \A i \in Positions : (i < LBL \/ i >= N - LBR) => ~Marked(pivots, i)
        /\ N < LBL + LBR + 1 => \A i \in Positions : ~Marked(pivots, i)

\* a series too short for its windows, all entries absent
C2_Witness ==
    /\ pc = "pivot_done" /\ highlow = "high"
    /\ N < LBL + LBR + 1 /\ LBL < N
    /\ Len(pivots) = N
    /\ \A i \in Positions : ~Marked(pivots, i)

\* C3: every row of the frame of generate_signals is labelled 'buy' iff
\* buy_signal and not sell_signal, 'sell' iff sell_signal and not buy_signal,
\* and 'hold' otherwise, also when both flags are true.
C3_LabelFromFlags ==
    pc = "signals_done" =>
        \A k \in 1..Len(signals) :
            LET r == signals[k]
            IN  /\ r.signal \in {"buy", "sell", "hold"}
                /\ r.signal = "buy" <=> (r.buy_signal /\ ~r.sell_signal)
                /\ r.signal = "sell" <=> (r.sell_signal /\ ~r.buy_signal)
                /\ (r.buy_signal /\ r.sell_signal) => r.signal = "hold"

\* a row with both flags true, labelled hold
C3_Witness ==
    /\ pc = "signals_done"
    /\ \E k \in 1..Len(signals) :
        signals[k].buy_signal /\ signals[k].sell_signal /\ signals[k].signal = "hold"

\* a flagged change point lies in the clamped window around i
FlaggedInWindow(i) ==
    \E c \in Positions :
        /\ signals[c + 1].change_point = 1
        /\ Max(0, i - cp_window) <= c
        /\ c <= Min(N - 1, i + cp_window)

\* C4: buy_signal[i] iff a pivot-low mark is present at i and a flagged change
\* point c has max(0, i - cp_window) <= c <= min(len - 1, i + cp_window);
\* sell_signal[i] likewise with the pivot-high mark.
C4_EligibleIffPivotNearChangePoint ==
    pc = "signals_done" =>
        \A i \in Positions :
            LET r == signals[i + 1]
            IN  /\ r.buy_signal <=> (~isnan(r.pvtLow) /\ FlaggedInWindow(i))
                /\ r.sell_signal <=> (~isnan(r.pvtHigh) /\ FlaggedInWindow(i))

\* a pivot low two bars before the only change point, window 2: buy-eligible
C4_Witness ==
    /\ pc = "signals_done" /\ cp_window = 2
    /\ \E i \in Positions :
        /\ i + 2 \in Positions
        /\ cp_written = {i + 2}
        /\ ~isnan(signals[i + 1].pvtLow)
        /\ signals[i + 1].buy_signal

\* C5: whatever list of indices the solver returns, generate_signals completes
\* and every index used to write the change_point column lies in [0, len): the
\* sentinel len and any other out-of-range index is filtered out and sets no
\* flag, and the column is 1 exactly at the returned indices that are in range
\* and 0 elsewhere.
C5_ChangePointWritesInRange ==
    solver = "ok" =>
        /\ pc = "signals_done"
        /\ err = "none"
        /\ cp_written \subseteq Positions
        /\ cp_written = Range(cp_indices) \cap Positions
        /\ \A i \in Positions :
            signals[i + 1].change_point = (IF i \in Range(cp_indices) THEN 1 ELSE 0)

\* the solver returned an in-range index followed by the sentinel len: one
\* flag is set and the sentinel is filtered out
C5_Witness ==
    /\ pc = "signals_done"
    /\ Len(cp_indices) = 2
    /\ cp_indices[1] \in Positions
    /\ cp_indices[2] = N
    /\ cp_written = {cp_indices[1]}
    /\ signals[cp_indices[1] + 1].change_point = 1
    /\ SumSeq([k \in 1..N |-> signals[k].change_point]) = 1

\* C6: when the solver fails, detect_change_points returns an empty list and
\* generate_signals completes with every row labelled 'hold'.
C6_SolverFailureGivesAllHold ==
    solver = "failed" =>
        /\ pc = "signals_done"
        /\ err = "none"
        /\ cp_indices = <<>>
        /\ Len(signals) = N
        /\ \A k \in 1..Len(signals) : signals[k].signal = "hold"

\* C7: for a table without duplicate index values, get_pvt_signals returns the
\* rows of the original, each once and in order; cpd_pvt_signals is non-null
\* at a row iff the row was buy- or sell-eligible in the fused frame; the
\* buy_signal and sell_signal columns are gone.
C7_MergePreservesRows ==
    pc = "merged" =>
        /\ Len(merged) = N
        /\ \A k \in 1..Len(merged) :
            /\ k <= N
            /\ merged[k].idx = index[k]
            /\ merged[k].Close = Close[k]
            /\ merged[k].cpd_pvt_signals # Null
                 <=> (signals[k].buy_signal \/ signals[k].sell_signal)
        /\ "buy_signal" \notin Columns(merged)
        /\ "sell_signal" \notin Columns(merged)
        /\ "cpd_pvt_signals" \in Columns(merged)

\* a merged table with a buy row and a sell row among unlabelled ones
C7_Witness ==
    /\ pc = "merged" /\ ~HasDuplicates(index)
    /\ Len(merged) = N
    /\ \E j, k \in 1..Len(merged) :
        /\ signals[j].buy_signal /\ merged[j].cpd_pvt_signals = "buy"
        /\ signals[k].sell_signal /\ merged[k].cpd_pvt_signals = "sell"
    /\ \E k \in 1..Len(merged) : merged[k].cpd_pvt_signals = Null

\* C8: every cpd_pvt_signals value returned by get_pvt_signals is 'buy',
\* 'sell' or null; 'hold' never appears.
C8_MergedLabelsBuySellNull ==
    pc = "merged" =>
        \A k \in 1..Len(merged) : merged[k].cpd_pvt_signals \in {"buy", "sell", Null}

\* a merged table with a 'buy' row, its fused frame holding 'hold' rows
C8_Witness ==
    /\ pc = "merged"
    /\ \E k \in 1..Len(merged) : merged[k].cpd_pvt_signals = "buy"
    /\ \E k \in 1..Len(signals) : signals[k].signal = "hold"

\* index labels of the frame handed to the merge
ActiveIndex == [k \in 1..Len(ActiveSignals(signals)) |-> ActiveSignals(signals)[k].idx]

\* C9: when the fused frame handed to the merge holds duplicate index values,
\* the merge fails with MalformedInput and never returns more rows than the
\* original has.
C9_DuplicateIndexFailsLoudly ==
    (solver = "ok" /\ HasDuplicates(ActiveIndex)) =>
        /\ err = "MalformedInput"
        /\ pc = "raised"
        /\ Len(merged) <= N

\* C10: with LBR >= 1 no index is marked both pivot high and pivot low, and no
\* row has buy_signal and sell_signal both true; both happen only with LBR = 0.
C10_HighLowExclusiveUnlessNoLookahead ==
    pc = "signals_done" =>
        \A k \in 1..Len(signals) :
            LET r == signals[k]
            IN  ((~isnan(r.pvtHigh) /\ ~isnan(r.pvtLow)) \/ (r.buy_signal /\ r.sell_signal))
                    => LBR = 0

\* LBR >= 1 and both a buy row and a sell row in one frame
C10_Witness ==
    /\ pc = "signals_done" /\ LBR >= 1
    /\ \E k \in 1..Len(signals) : signals[k].signal = "buy"
    /\ \E k \in 1..Len(signals) : signals[k].signal = "sell"

=============================================================================
